---- MODULE Spec2Model ----
(***************************************************************************)
(* A model of the string-evolution engine of src/src/genetic.rs: the      *)
(* Generation State (State), its constructor State::new, the generation   *)
(* step State::update (fitness scoring, mating pool, parent selection     *)
(* with the "b == a" resampling loop, reproduce, mutate) and the summary  *)
(* State::get_render_state (top word, average fitness, top-n).            *)
(*                                                                         *)
(* Strings are sequences of characters.  f32 values are modelled exactly: *)
(* a finite non-negative f32 is <<m, e>> standing for m * 2^e with m odd  *)
(* (or <<0, 0>> for 0.0) and m < 2^24; every arithmetic operation rounds  *)
(* to nearest, ties to even, as IEEE-754 binary32 does.                   *)
(***************************************************************************)
EXTENDS Integers, Sequences, FiniteSets

\* ---------------------------------------------------------------- bounds

\* Longest target handed to State::new (0 is the empty target; a target
\* longer than the alphabet exhausts it).
MaxLen == 3
\* Largest population_size handed to State::new (0 included).
MaxPop == 2
\* Largest mating_pool_size handed to State::new (0 included).
MaxFactor == 2
\* The generation counter is capped: update is not called at MaxGen.
MaxGen == 2
\* Largest n for which top(target, population, n) is examined.
MaxK == 2

\* The characters individuals are made of: ' '..='~' in genetic.rs (95
\* characters) and 'a'..='z' in main.rs (26); two and three of them here.
Binary == {"a", "b"}
Ternary == {"a", "b", "c"}

\* mutation_rate, in hundredths: -0.5, 0.0, 0.5, 1.0 and 1.5.
Rates == {-50, 0, 50, 100, 150}

\* ------------------------------------------------------------------- f32

NaN == <<-1, 0>>
Zero == <<0, 0>>
One == <<1, 0>>

IsNaN(x) == x[1] < 0

RECURSIVE F32Canon(_, _)
\* m * 2^e with the trailing zero bits of m moved into the exponent.
F32Canon(m, e) ==
  IF m = 0 THEN Zero
  ELSE IF m % 2 = 0 THEN F32Canon(m \div 2, e + 1)
  ELSE <<m, e>>

RECURSIVE F32Round(_, _, _)
\* The f32 nearest to (p / q) * 2^e, ties to even; p > 0, q > 0.
F32Round(p, q, e) ==
  IF q = 1 /\ p < 16777216 THEN F32Canon(p, e)
  ELSE IF p \div 16777216 >= q THEN F32Round(p, 2 * q, e + 1)
  ELSE IF p \div 8388608 < q THEN F32Round(2 * p, q, e - 1)
  ELSE LET m == p \div q
           r == p % q
           up == (2 * r > q) \/ (2 * r = q /\ m % 2 = 1)
       IN F32Canon(IF up THEN m + 1 ELSE m, e)

\* n as f32, for a usize n.
F32FromNat(n) == IF n = 0 THEN Zero ELSE F32Round(n, 1, 0)

\* x / y; the divisors of the source are small integers (a length, a count).
F32Div(x, y) ==
  IF IsNaN(x) \/ IsNaN(y) THEN NaN
  ELSE IF y = Zero THEN NaN
  ELSE IF x = Zero THEN Zero
  ELSE F32Round(x[1], y[1], x[2] - y[2])

\* x * y.
F32Mul(x, y) ==
  IF IsNaN(x) \/ IsNaN(y) THEN NaN
  ELSE IF x = Zero \/ y = Zero THEN Zero
  ELSE F32Round(x[1] * y[1], 1, x[2] + y[2])

\* x + y.
F32Add(x, y) ==
  IF IsNaN(x) \/ IsNaN(y) THEN NaN
  ELSE IF x = Zero THEN y
  ELSE IF y = Zero THEN x
  ELSE LET e == IF x[2] < y[2] THEN x[2] ELSE y[2]
       IN F32Round(x[1] * 2^(x[2] - e) + y[1] * 2^(y[2] - e), 1, e)

\* x < y, false when either is NaN.
F32Less(x, y) ==
  IF IsNaN(x) \/ IsNaN(y) THEN FALSE
  ELSE LET e == IF x[2] < y[2] THEN x[2] ELSE y[2]
       IN x[1] * 2^(x[2] - e) < y[1] * 2^(y[2] - e)

\* f32::ceil followed by `as usize` (NaN casts to 0).
F32CeilAsUsize(x) ==
  IF IsNaN(x) THEN 0
  ELSE IF x[2] >= 0 THEN x[1] * 2^x[2]
  ELSE (x[1] + 2^(0 - x[2]) - 1) \div 2^(0 - x[2])

\* f32::round (half away from zero) followed by `as i32` (NaN casts to 0).
F32RoundAsI32(x) ==
  IF IsNaN(x) THEN 0
  ELSE IF x[2] >= 0 THEN x[1] * 2^x[2]
  ELSE (2 * x[1] + 2^(0 - x[2])) \div 2^(1 - x[2])

\* `as i32` of a non-negative f32: truncation (NaN casts to 0).
F32TruncAsI32(x) ==
  IF IsNaN(x) THEN 0
  ELSE IF x[2] >= 0 THEN x[1] * 2^x[2]
  ELSE x[1] \div 2^(0 - x[2])

\* --------------------------------------------------------------- strings

Min(x, y) == IF x < y THEN x ELSE y

Range(s) == {s[i] : i \in 1..Len(s)}

\* The strings of length n over the characters chars.
Strings(n, chars) == [1..n -> chars]

\* The targets State::new is given: every string of the lengths lens.
Targets(chars, lens) == UNION {Strings(l, chars) : l \in lens}

\* generate(length, rng): choose_multiple draws `length` characters without
\* replacement (all of the alphabet when it has fewer), shuffled.
generate(length, chars) ==
  {s \in Strings(Min(length, Cardinality(chars)), chars) :
     \A i, j \in 1..Len(s) : i # j => s[i] # s[j]}

\* ------------------------------------------------------------- fitness

\* absolute_fitness indexes guess.as_bytes()[i] for every i < target.len():
\* an index out of bounds (a panic) when the guess is shorter.
FitnessPanics(tgt, guess) == Len(guess) < Len(tgt)

\* absolute_fitness(target, guess), where it does not panic.
absolute_fitness(tgt, guess) ==
  F32Div(F32FromNat(Cardinality({i \in 1..Len(tgt) : tgt[i] = guess[i]})),
         F32FromNat(Len(tgt)))

\* ----------------------------------------------------- reproduce, mutate

\* reproduce(rng, e1, e2): each character is e1's or e2's at that position.
reproduce(e1, e2) ==
  {c \in [1..Len(e1) -> Range(e1) \cup Range(e2)] :
     \A i \in 1..Len(e1) : c[i] \in {e1[i], e2[i]}}

\* random_bool(p) panics unless 0 <= p <= 1.
RandomBoolPanics(rate) == rate < 0 \/ rate > 100

\* A faulty variant: a coin that ignores its probability.
RandomBoolAny(rate) == {TRUE, FALSE}

\* The values random_bool(p) can return: never true at 0, never false at 1.
RandomBool(rate) == {x \in {TRUE, FALSE} : IF x THEN rate > 0 ELSE rate < 100}

\* mutate calls random_bool once per character: it panics on the first
\* character when the rate is out of range.
MutatePanics(element, rate) == Len(element) > 0 /\ RandomBoolPanics(rate)

\* mutate(rng, element, mutation_rate), where it does not panic.
mutate(element, rate, chars) ==
  {c \in Strings(Len(element), chars \cup Range(element)) :
     \A i \in 1..Len(element) :
       \E flip \in RandomBool(rate) :
         IF flip THEN c[i] \in chars ELSE c[i] = element[i]}

\* ----------------------------------------------------------- mating pool

RECURSIVE Repeat(_, _)
\* [x].repeat(n)
Repeat(x, n) == IF n = 0 THEN <<>> ELSE <<x>> \o Repeat(x, n - 1)

\* A faulty variant: the product truncated, not rounded up.
MultiplicityFloor(fitness, pool_size) ==
  F32TruncAsI32(F32Mul(fitness, F32FromNat(pool_size)))

\* (fitness * mating_pool_size as f32).ceil() as usize
Multiplicity(fitness, pool_size) ==
  F32CeilAsUsize(F32Mul(fitness, F32FromNat(pool_size)))

RECURSIVE FlatMapPool(_, _, _)
\* The flat_map over the scored population from its i-th element on: the
\* pool holds references, modelled as indices into the scored population.
FlatMapPool(scored, pool_size, i) ==
  IF i > Len(scored) THEN <<>>
  ELSE Repeat(i, Multiplicity(scored[i][2], pool_size))
         \o FlatMapPool(scored, pool_size, i + 1)

\* The mating pool of generate_new_population.
MatingPool(scored, pool_size) == FlatMapPool(scored, pool_size, 1)

\* ------------------------------------------------------------ summaries

RECURSIVE SumFitness(_, _, _)
\* The fold of average_absolute_fitness over the first n individuals.
SumFitness(tgt, pop, n) ==
  IF n = 0 THEN Zero
  ELSE F32Add(SumFitness(tgt, pop, n - 1), absolute_fitness(tgt, pop[n]))

average_absolute_fitness(tgt, pop) ==
  F32Div(SumFitness(tgt, pop, Len(pop)), F32FromNat(Len(pop)))

\* A stable sort of s by the keys key (key[i] is the key of s[i]), as
\* sort_by_key and sorted_by_key are.
SortByKey(s, key) ==
  LET rank(i) == 1 + Cardinality({j \in 1..Len(s) :
                        \/ key[j] < key[i]
                        \/ key[j] = key[i] /\ j < i})
  IN [r \in 1..Len(s) |-> s[CHOOSE i \in 1..Len(s) : rank(i) = r]]

RECURSIVE Unique(_)
\* Itertools::unique: the first occurrence of every value, in order.
Unique(s) ==
  IF s = <<>> THEN <<>>
  ELSE LET r == Unique(SubSeq(s, 1, Len(s) - 1))
       IN IF s[Len(s)] \in Range(r) THEN r ELSE Append(r, s[Len(s)])

\* Iterator::take(n)
Take(s, n) == SubSeq(s, 1, Min(n, Len(s)))

\* The sort key of top: -(absolute_fitness * 1000.0).round() as i32
TopKey(tgt, element) ==
  0 - F32RoundAsI32(F32Mul(absolute_fitness(tgt, element), F32FromNat(1000)))

\* A faulty variant: top without unique().
TopNoUnique(tgt, pop, n) ==
  Take(SortByKey(pop, [i \in 1..Len(pop) |-> TopKey(tgt, pop[i])]), n)

\* top(target, population, n), where absolute_fitness does not panic.
top(tgt, pop, n) ==
  Take(Unique(SortByKey(pop, [i \in 1..Len(pop) |-> TopKey(tgt, pop[i])])), n)

\* The sort key of top_word: (-absolute_fitness * 100.0) as i32
TopWordKey(tgt, element) ==
  0 - F32TruncAsI32(F32Mul(absolute_fitness(tgt, element), F32FromNat(100)))

\* The n of get_render_state's top_n.
TopN == 10

\* ----------------------------------------------------------------- state

VARIABLES
  alphabet,        \* the characters generate and mutate draw from
  args,            \* what State::new was called with
  target,          \* State.target
  population,      \* State.population
  mating_pool_size,\* State.mating_pool_size
  mutation_rate,   \* State.mutation_rate, in hundredths
  generation,      \* State.generation
  updates,         \* the number of update calls that have returned
  pc,              \* "ready", inside update ("mating", "resample"), "panicked"
  population_with_fitnesses, \* update's scored population
  mating_pool,     \* generate_new_population's mating_pool
  new_population,  \* generate_new_population's new_population
  a,               \* parent a: a reference into the scored population
  b,               \* parent b
  render_state     \* the RenderState get_render_state returned last

vars == <<alphabet, args, target, population, mating_pool_size, mutation_rate,
          generation, updates, pc, population_with_fitnesses, mating_pool,
          new_population, a, b, render_state>>

state_fields == <<target, population, mating_pool_size, mutation_rate, generation>>
locals == <<population_with_fitnesses, mating_pool, new_population, a, b>>

\* No reference (a parent not drawn yet) and no summary.
NoRef == 0
NoRender == <<>>

\* State::new(target, population_size, mating_pool_size, mutation_rate):
\* every argument is stored as given, and nothing is checked.
New(chars, lens, sizes, factors, rates) ==
  \E t \in Targets(chars, lens), n \in sizes, m \in factors, r \in rates :
    /\ alphabet = chars
    /\ args = [target |-> t, population_size |-> n,
               mating_pool_size |-> m, mutation_rate |-> r]
    /\ target = t
    /\ population \in [1..n -> generate(Len(t), chars)]
    /\ mating_pool_size = m
    /\ mutation_rate = r
    /\ generation = 0
    /\ updates = 0
    /\ pc = "ready"
    /\ population_with_fitnesses = <<>>
    /\ mating_pool = <<>>
    /\ new_population = <<>>
    /\ a = NoRef
    /\ b = NoRef
    /\ render_state = NoRender

\* The element a reference of the mating pool points to.
Deref(ref) == population_with_fitnesses[ref][1]

\* A faulty variant: the pool factor passed where the population size goes.
PopulationSizeSwapped == mating_pool_size

\* The population_size update passes to generate_new_population.
PopulationSizeArg == Len(population)

\* update, up to the child loop: score the population (a panic when an
\* individual is shorter than the target) and build the mating pool.  The
\* caller's summary of the generation is gone once it asks for the next;
\* generation + 1 is kept from overflowing by the cap MaxGen.
UpdateBegin ==
  /\ pc = "ready"
  /\ generation < MaxGen
  /\ render_state' = NoRender
  /\ IF \E i \in 1..Len(population) : FitnessPanics(target, population[i])
     THEN /\ pc' = "panicked"
          /\ UNCHANGED <<alphabet, args, state_fields, updates, locals>>
     ELSE /\ population_with_fitnesses' =
               [i \in 1..Len(population) |->
                  <<population[i], absolute_fitness(target, population[i])>>]
          /\ mating_pool' = MatingPool(population_with_fitnesses', mating_pool_size)
          /\ new_population' = <<>>
          /\ a' = NoRef
          /\ b' = NoRef
          /\ pc' = "mating"
          /\ UNCHANGED <<alphabet, args, state_fields, updates>>

\* One more child slot: draw a and b; choose(rng).unwrap() panics on an
\* empty pool.
PickParents ==
  /\ pc = "mating"
  /\ Len(new_population) < PopulationSizeArg
  /\ IF mating_pool = <<>>
     THEN /\ pc' = "panicked"
          /\ UNCHANGED <<a, b>>
     ELSE /\ a' \in Range(mating_pool)
          /\ b' \in Range(mating_pool)
          /\ pc' = "resample"
  /\ UNCHANGED <<alphabet, args, state_fields, updates, population_with_fitnesses,
                 mating_pool, new_population, render_state>>

\* A faulty variant: the references compared, not the strings.
SameReference(x, y) == x = y

\* b == a: the comparison of the two strings.
SameValue(x, y) == Deref(x) = Deref(y)

\* while b == a { b = mating_pool.choose(rng).unwrap(); }
Resample ==
  /\ pc = "resample"
  /\ SameValue(b, a)
  /\ b' \in Range(mating_pool)
  /\ UNCHANGED <<alphabet, args, state_fields, updates, pc, population_with_fitnesses,
                 mating_pool, new_population, a, render_state>>

\* The children reproduce and mutate can make of two parents.
Children(e1, e2, rate) ==
  UNION {mutate(c, rate, alphabet) : c \in reproduce(e1, e2)}

\* b differs from a: reproduce, mutate (a panic when random_bool is given
\* a rate out of range) and push the child.
Mate ==
  /\ pc = "resample"
  /\ ~SameValue(b, a)
  /\ IF \E c \in reproduce(Deref(a), Deref(b)) : MutatePanics(c, mutation_rate)
     THEN /\ pc' = "panicked"
          /\ UNCHANGED <<new_population, a, b>>
     ELSE /\ \E child \in Children(Deref(a), Deref(b), mutation_rate) :
               new_population' = Append(new_population, child)
          /\ a' = NoRef
          /\ b' = NoRef
          /\ pc' = "mating"
  /\ UNCHANGED <<alphabet, args, state_fields, updates, population_with_fitnesses,
                 mating_pool, render_state>>

\* A faulty variant: the counter not incremented.
GenerationKept == generation

\* generation: self.generation + 1
NextGeneration == generation + 1

\* The loop is over: update returns the next State, which replaces this one.
UpdateReturn ==
  /\ pc = "mating"
  /\ Len(new_population) >= PopulationSizeArg
  /\ population' = new_population
  /\ generation' = NextGeneration
  /\ updates' = updates + 1
  /\ pc' = "ready"
  /\ population_with_fitnesses' = <<>>
  /\ mating_pool' = <<>>
  /\ new_population' = <<>>
  /\ UNCHANGED <<alphabet, args, target, mating_pool_size, mutation_rate, a, b, render_state>>

\* get_render_state: top_word is computed first (a panic on a short
\* individual, or on the unwrap of an empty population's first element).
\* The summary is a function of the State, so one call per generation
\* shows all it can return.
GetRenderState ==
  /\ pc = "ready"
  /\ render_state = NoRender
  /\ IF \/ population = <<>>
        \/ \E i \in 1..Len(population) : FitnessPanics(target, population[i])
     THEN /\ pc' = "panicked"
          /\ UNCHANGED render_state
     ELSE /\ render_state' =
               [top_word |->
                  SortByKey(population,
                            [i \in 1..Len(population) |->
                               TopWordKey(target, population[i])])[1],
                generation |-> generation,
                average_fitness |-> average_absolute_fitness(target, population),
                total_population |-> Len(population),
                mutation_rate |-> mutation_rate,
                top_n |-> top(target, population, TopN)]
          /\ UNCHANGED pc
  /\ UNCHANGED <<alphabet, args, state_fields, updates, locals>>

Next ==
  \/ UpdateBegin
  \/ PickParents
  \/ Resample
  \/ Mate
  \/ UpdateReturn
  \/ GetRenderState

\* Every argument of State::new, over the two-character alphabet.
Init == New(Binary, 0..MaxLen, 0..MaxPop, 0..MaxFactor, Rates)

Spec == Init /\ [][Next]_vars

\* The runs without mutation (mutation_rate = 0.0) over three characters,
\* for targets of one and two characters and a mating pool factor of 1.
InitNoMutation == New(Ternary, {1, 2}, 0..MaxPop, {1}, {0})

SpecNoMutation == InitNoMutation /\ [][Next]_vars

\* ---------------------------------------------------------------- claims

\* The scored individuals of the update in progress.
Scored == 1..Len(population_with_fitnesses)

Fitness(i) == population_with_fitnesses[i][2]

\* The number of entries individual i has in the mating pool.
Entries(i) == Cardinality({k \in 1..Len(mating_pool) : mating_pool[k] = i})

InUpdate == pc \in {"mating", "resample"}

\* C1: the population holds exactly the population_size given to
\* State::new, in every state and so after every update that returns.
C1_PopulationSizeInvariant == Len(population) = args.population_size

C1_Witness ==
  /\ pc = "ready"
  /\ updates >= 1
  /\ Len(population) = MaxPop

\* C2: the resampling of parent b never runs on a mating pool that holds
\* only copies of a's value (it is guarded, so update returns or fails).
C2_ResamplingIsGuarded ==
  ~(pc = "resample" /\ \A r \in Range(mating_pool) : SameValue(r, a))

\* C3: whenever a child is pushed, the parents given to reproduce are both
\* entries of the mating pool and are different strings.
C3_ParentsDifferByValue ==
  [][Len(new_population') > Len(new_population) =>
       /\ a \in Range(mating_pool)
       /\ b \in Range(mating_pool)
       /\ Deref(a) # Deref(b)]_vars

C3_Witness ==
  /\ pc = "mating"
  /\ Len(new_population) >= 1
  /\ \E k, l \in 1..Len(mating_pool) :
       k # l /\ Deref(mating_pool[k]) = Deref(mating_pool[l])

C5_EmptyPoolFails ==
  [][(pc = "mating" /\ \A i \in Scored : Fitness(i) = Zero) => pc' # "ready"]_vars

\* C6: State::new yields no state for a population size of 0, a mutation
\* rate outside [0, 1] or an empty target.
C6_ConfigurationRejected ==
  /\ args.population_size > 0
  /\ args.mutation_rate >= 0 /\ args.mutation_rate <= 100
  /\ Len(args.target) > 0

\* C7: the generation counter is the number of updates that have returned
\* (0 after State::new), and the target, the mating pool factor and the
\* mutation rate are those given to State::new.
C7_GenerationLifecycle ==
  /\ generation = updates
  /\ target = args.target
  /\ mating_pool_size = args.mating_pool_size
  /\ mutation_rate = args.mutation_rate

C7_Witness ==
  /\ pc = "ready"
  /\ updates = MaxGen
  /\ Len(population) >= 1

\* The positions at which guess has the target's character.
Matching(tgt, guess) == {i \in 1..Len(tgt) : tgt[i] = guess[i]}

\* C8, for the target of the state and an individual of its length: the
\* fitness is the matching count divided by the length, within [0, 1],
\* 1.0 for the target itself and 0.0 exactly when no position matches.
FitnessIsMatchFraction(tgt, guess) ==
  LET f == absolute_fitness(tgt, guess)
      k == Cardinality(Matching(tgt, guess))
  IN /\ f = F32Div(F32FromNat(k), F32FromNat(Len(tgt)))
     /\ ~IsNaN(f) /\ ~F32Less(f, Zero) /\ ~F32Less(One, f)
     /\ guess = tgt => f = One
     /\ f = Zero <=> k = 0

\* C8: absolute_fitness is the match fraction for every target and every
\* individual of the target's length.
C8_FitnessIsMatchFraction ==
  \A guess \in Strings(Len(target), alphabet) :
    FitnessIsMatchFraction(target, guess)

\* What C9 says of a top-K list t of population pop.
IsTopK(tgt, pop, K, t) ==
  /\ \A i, j \in 1..Len(t) : i # j => t[i] # t[j]
  /\ Len(t) = Min(K, Cardinality(Range(pop)))
  /\ Range(t) \subseteq Range(pop)
  /\ \A i, j \in 1..Len(t) :
       i < j => ~F32Less(absolute_fitness(tgt, t[i]), absolute_fitness(tgt, t[j]))
  /\ \A x \in Range(pop) \ Range(t), y \in Range(t) :
       ~F32Less(absolute_fitness(tgt, y), absolute_fitness(tgt, x))

CanScore == \A i \in 1..Len(population) : ~FitnessPanics(target, population[i])

\* C9: top(target, population, K) has no duplicates, min(K, number of
\* distinct individuals) elements in non-increasing fitness order, and
\* leaves out no individual fitter than one it holds; so has the top_n of
\* a summary.
C9_TopK ==
  (pc = "ready" /\ CanScore) =>
    /\ \A K \in 0..MaxK : IsTopK(target, population, K, top(target, population, K))
    /\ render_state # NoRender =>
         IsTopK(target, population, TopN, render_state.top_n)

C9_Witness ==
  /\ pc = "ready"
  /\ render_state # NoRender
  /\ Len(render_state.top_n) >= 2
  /\ F32Less(absolute_fitness(target, render_state.top_n[2]),
             absolute_fitness(target, render_state.top_n[1]))
  /\ Len(top(target, population, 1)) < Len(render_state.top_n)

\* No individual of the population has the target's character at i.
Dead(i) == \A j \in 1..Len(population) : population[j][i] # target[i]

NoPerfect ==
  \A j \in 1..Len(population) : absolute_fitness(target, population[j]) # One

\* C10: with mutation_rate = 0, every character of every child of an
\* update is, at its position, the character of an individual of nonzero
\* fitness of the previous population; a position no individual matches
\* stays unmatched, and the population then holds no individual of
\* fitness 1.0.
C10_NoNewCharacters ==
  [][(mutation_rate = 0 /\ CanScore) =>
       /\ updates' = updates + 1 =>
            \A k \in 1..Len(population'), i \in 1..Len(target) :
              \E j \in 1..Len(population) :
                /\ F32Less(Zero, absolute_fitness(target, population[j]))
                /\ population[j][i] = population'[k][i]
       /\ \A i \in 1..Len(target) :
            /\ Dead(i) => Dead(i)'
            /\ Dead(i)' => NoPerfect']_vars

C10_Witness ==
  /\ mutation_rate = 0
  /\ pc = "mating"
  /\ updates >= 1
  /\ Len(population) >= 2
  /\ Len(new_population) = Len(population)
  /\ \E i \in 1..Len(target) : Dead(i)
  /\ \E i \in 1..Len(target) : ~Dead(i)

====
